---- MODULE Spec2Model ----
(***************************************************************************)
(* MinMap<K, V, H, SIZE> of src/src/lib.rs: a fixed-size table that keeps, *)
(* per hash bucket, the minimum value ever set for a key of that bucket.   *)
(*                                                                         *)
(* Keys are 1..NumKeys, values (V: Copy + Ord) are 0..MaxValue, and a hash *)
(* builder is the function from keys to the value its hasher finishes with *)
(* (0..MaxHash stands for the u64 range; the cast `as usize` keeps the     *)
(* value on a 64-bit target).  The table is a sequence, so slot i of the   *)
(* Rust array is table[i + 1].                                             *)
(***************************************************************************)
EXTENDS Integers, Sequences, FiniteSets, TLC

NumKeys == 2
MaxHash == 3
MaxValue == 2
MaxSize == 2
MaxCalls == 3

Keys == 1..NumKeys
Values == 0..MaxValue
HashValues == 0..MaxHash
Sizes == 0..MaxSize
NoValue == 0 - 1

VARIABLES
    SIZE,          \* the const generic parameter, fixed per instantiation
    status,        \* "unbuilt", "live", or "panicked" (a call unwound)
    table,         \* self.table
    hash_builder,  \* self.hash_builder, as the map key -> finish()
    init,          \* the sentinel handed to the constructor
    log,           \* the set calls made so far, in order
    op,            \* the last call made
    ret            \* what the last call returned (NoValue: nothing)

vars == <<SIZE, status, table, hash_builder, init, log, op, ret>>

HashBuilders == [Keys -> HashValues]

\* [init; SIZE]
Fill(v, n) == [i \in 1..n |-> v]

\* min with the comparison reversed
min_max(a, b) == IF b < a THEN a ELSE b

\* std::cmp::min(a, b): a unless b is strictly smaller
min(a, b) == IF b < a THEN b ELSE a

\* `hasher.finish() as usize % SIZE` panics when SIZE is 0
hashPanics(n) == n = 0

\* hash without the remainder
hash_noMod(hb, n, key) == hb[key]

\* MinMap::hash, defined when ~hashPanics(n)
hash(hb, n, key) == hb[key] % n

\* self.table[i] panics when i is out of range
indexPanics(t, i) == i \notin 0..(Len(t) - 1)

\* a call on key panics
callPanics(t, hb, n, key) == hashPanics(n) \/ indexPanics(t, hash(hb, n, key))

\* set that stores the value whatever the slot holds
setTable_overwrite(t, hb, n, key, value) ==
    [t EXCEPT ![hash(hb, n, key) + 1] = value]

\* the table after set(key, value)
setTable(t, hb, n, key, value) ==
    LET h == hash(hb, n, key)
    IN  [t EXCEPT ![h + 1] = min(t[h + 1], value)]

\* get that reads slot 0 whatever the key
get_slot0(t, hb, n, key) == t[1]

\* the value get(key) returns
get(t, hb, n, key) == t[hash(hb, n, key) + 1]

\* the value map[key] reads
index(t, hb, n, key) == t[hash(hb, n, key) + 1]

\* map[key] = value going through the min rule
indexMutWrite_min(t, hb, n, key, value) ==
    [t EXCEPT ![hash(hb, n, key) + 1] = min(t[hash(hb, n, key) + 1], value)]

\* the table after map[key] = value
indexMutWrite(t, hb, n, key, value) ==
    [t EXCEPT ![hash(hb, n, key) + 1] = value]

Init ==
    /\ SIZE \in Sizes
    /\ status = "unbuilt"
    /\ table = <<>>
    /\ hash_builder = [k \in Keys |-> 0]
    /\ init = 0
    /\ log = <<>>
    /\ op = <<"none">>
    /\ ret = NoValue

\* MinMap::new(init): the hash builder is RandomState::new()
New ==
    /\ status = "unbuilt"
    /\ \E v \in Values, hb \in HashBuilders :
        /\ hash_builder' = hb
        /\ table' = Fill(v, SIZE)
        /\ init' = v
    /\ status' = "live"
    /\ op' = <<"new">>
    /\ UNCHANGED <<SIZE, log, ret>>

\* MinMap::with_hash_builder(hash_builder, init)
WithHashBuilder ==
    /\ status = "unbuilt"
    /\ \E hb \in HashBuilders, v \in Values :
        /\ hash_builder' = hb
        /\ table' = Fill(v, SIZE)
        /\ init' = v
    /\ status' = "live"
    /\ op' = <<"with_hash_builder">>
    /\ UNCHANGED <<SIZE, log, ret>>

Set ==
    /\ status = "live"
    /\ Len(log) < MaxCalls
    /\ \E key \in Keys, value \in Values :
        /\ log' = Append(log, [key |-> key, value |-> value])
        /\ IF callPanics(table, hash_builder, SIZE, key)
           THEN /\ status' = "panicked"
                /\ table' = table
           ELSE /\ status' = "live"
                /\ table' = setTable(table, hash_builder, SIZE, key, value)
    /\ op' = <<"set">>
    /\ ret' = NoValue
    /\ UNCHANGED <<SIZE, hash_builder, init>>

Get ==
    /\ status = "live"
    /\ \E key \in Keys :
        /\ op' = <<"get", key>>
        /\ IF callPanics(table, hash_builder, SIZE, key)
           THEN /\ status' = "panicked"
                /\ ret' = NoValue
           ELSE /\ status' = "live"
                /\ ret' = get(table, hash_builder, SIZE, key)
    /\ UNCHANGED <<SIZE, table, hash_builder, init, log>>

\* let x = map[key]
Index ==
    /\ status = "live"
    /\ \E key \in Keys :
        /\ op' = <<"index", key>>
        /\ IF callPanics(table, hash_builder, SIZE, key)
           THEN /\ status' = "panicked"
                /\ ret' = NoValue
           ELSE /\ status' = "live"
                /\ ret' = index(table, hash_builder, SIZE, key)
    /\ UNCHANGED <<SIZE, table, hash_builder, init, log>>

\* map[key] = value
IndexMut ==
    /\ status = "live"
    /\ \E key \in Keys, value \in Values :
        /\ op' = <<"index_mut", key, value>>
        /\ IF callPanics(table, hash_builder, SIZE, key)
           THEN /\ status' = "panicked"
                /\ table' = table
           ELSE /\ status' = "live"
                /\ table' = indexMutWrite(table, hash_builder, SIZE, key, value)
    /\ ret' = NoValue
    /\ UNCHANGED <<SIZE, hash_builder, init, log>>

\* every operation of the type
Next == New \/ WithHashBuilder \/ Set \/ Get \/ Index \/ IndexMut

Spec == Init /\ [][Next]_vars

\* a client that mutates the table through set only
NextSet == New \/ WithHashBuilder \/ Set \/ Get

SetSpec == Init /\ [][NextSet]_vars

----
\* Abbreviations over the current state.

Live == status = "live" /\ SIZE >= 1

bucket(key) == hash(hash_builder, SIZE, key)

lookup(key) == get(table, hash_builder, SIZE, key)

\* the least element of a non-empty set of values, under V's order
MinOfSet(S) == CHOOSE m \in S : \A x \in S : m <= x

\* the values of the logged set calls whose key fell into slot i
MergedInto(i) == {log[j].value : j \in {n \in 1..Len(log) : bucket(log[n].key) = i}}

\* C1: every slot holds the minimum of init and of the values set through
\* keys of its bucket; a slot no set call hashed to still holds init.
C1_SlotIsMinimum ==
    Live => \A i \in 0..(SIZE - 1) :
                table[i + 1] = MinOfSet({init} \cup MergedInto(i))

\* a table with a lowered slot next to a slot no call reached
C1_Witness ==
    /\ Live
    /\ \E i, j \in 0..(SIZE - 1) :
        /\ MergedInto(i) # {} /\ table[i + 1] < init
        /\ MergedInto(j) = {} /\ table[j + 1] = init

\* C2: on a fresh table, get(k) after the single call set(k, v) returns
\* min(init, v).
C2_SingleSet ==
    (Live /\ Len(log) = 1 /\ op = <<"get", log[1].key>>)
        => ret = MinOfSet({init, log[1].value})

\* the single set lowered the slot and get read it back
C2_Witness ==
    /\ Live /\ Len(log) = 1 /\ op = <<"get", log[1].key>>
    /\ log[1].value < init
    /\ ret = log[1].value

\* C3: on a fresh table, after set(k1, v1) then set(k2, v2): keys of one
\* bucket both read min(init, v1, v2); keys of different buckets read
\* MinOfSet({init, v1}) and MinOfSet({init, v2}).
C3_DoubleSet ==
    (Live /\ Len(log) = 2) =>
        LET k1 == log[1].key
            v1 == log[1].value
            k2 == log[2].key
            v2 == log[2].value
        IN  IF bucket(k1) = bucket(k2)
            THEN /\ lookup(k1) = MinOfSet({init, v1, v2})
                 /\ lookup(k2) = MinOfSet({init, v1, v2})
                 /\ (op[1] = "get" /\ op[2] \in {k1, k2})
                        => ret = MinOfSet({init, v1, v2})
            ELSE /\ lookup(k1) = MinOfSet({init, v1})
                 /\ lookup(k2) = MinOfSet({init, v2})
                 /\ op = <<"get", k1>> => ret = MinOfSet({init, v1})
                 /\ op = <<"get", k2>> => ret = MinOfSet({init, v2})

\* two distinct keys collided, the first set the lower value, get read it
C3_Witness ==
    /\ Live /\ Len(log) = 2
    /\ log[1].key # log[2].key
    /\ hash_builder[log[1].key] # hash_builder[log[2].key]
    /\ bucket(log[1].key) = bucket(log[2].key)
    /\ log[1].value < log[2].value /\ log[2].value < init
    /\ op = <<"get", log[2].key>>
    /\ ret = log[1].value

\* the table after set(k1, v1); set(k2, v2) from the current state
TwoCalls(k1, v1, k2, v2) ==
    setTable(setTable(table, hash_builder, SIZE, k1, v1),
             hash_builder, SIZE, k2, v2)

\* the table after the single call set(k, v) from the current state
OneCall(k, v) == setTable(table, hash_builder, SIZE, k, v)

\* set(k1, v1); set(k2, v2) leaves the table that set(k1, min(v1, v2)) alone
\* leaves, and that set(k2, min(v1, v2)) alone leaves
EquivBoth(k1, v1, k2, v2) ==
    /\ TwoCalls(k1, v1, k2, v2) = OneCall(k1, MinOfSet({v1, v2}))
    /\ TwoCalls(k1, v1, k2, v2) = OneCall(k2, MinOfSet({v1, v2}))

\* C4: from any table the set calls reach, for keys of equal hash the two
\* set calls, in either order, leave the state either single call with
\* min(v1, v2) leaves.
C4_EqualHashEquivalence ==
    Live => \A k1, k2 \in Keys, v1, v2 \in Values :
                bucket(k1) = bucket(k2) =>
                    /\ EquivBoth(k1, v1, k2, v2)
                    /\ TwoCalls(k2, v2, k1, v1) = TwoCalls(k1, v1, k2, v2)

\* the last two set calls went to two distinct keys of one bucket, with
\* different values, and lowered the slot
C4_Witness ==
    /\ Live /\ Len(log) >= 2 /\ op = <<"set">>
    /\ LET a == log[Len(log) - 1]
           b == log[Len(log)]
       IN  /\ a.key # b.key
           /\ bucket(a.key) = bucket(b.key)
           /\ a.value # b.value
           /\ table[bucket(a.key) + 1] = MinOfSet({a.value, b.value})
           /\ table[bucket(a.key) + 1] < init

C6_Monotone ==
    /\ [](Live => \A k \in Keys : lookup(k) <= init)
    /\ [][(Live /\ status' = "live") =>
            \A k \in Keys :
                get(table', hash_builder', SIZE', k) <= lookup(k)]_vars

\* a slot was lowered twice
C6_Witness ==
    /\ Live /\ Len(log) >= 2
    /\ \E k \in Keys :
        /\ lookup(k) < log[1].value
        /\ bucket(log[1].key) = bucket(k)
        /\ log[1].value < init

\* C7: with SIZE = 0 no constructor produces a table, so no call reaches
\* the remainder by zero.
C7_ZeroSizeRejected == SIZE = 0 => status = "unbuilt"

\* C8: with SIZE >= 1 every bucket index is in [0, SIZE), the table has
\* SIZE slots holding values, and no call panics; get returns a value.
C8_Total ==
    SIZE >= 1 =>
        /\ status # "panicked"
        /\ status = "live" =>
            /\ Len(table) = SIZE
            /\ \A i \in 1..SIZE : table[i] \in Values
            /\ \A k \in Keys : bucket(k) \in 0..(SIZE - 1)
            /\ op[1] \in {"get", "index"} => ret \in Values

\* get ran on a key whose hash value is beyond the table's length
C8_Witness ==
    /\ Live /\ SIZE >= 2
    /\ op[1] = "get"
    /\ hash_builder[op[2]] >= SIZE
    /\ bucket(op[2]) = SIZE - 1
    /\ ret = table[SIZE]

\* the logged calls in the order p
Permuted(p) == [i \in 1..Len(log) |-> log[p[i]]]

RECURSIVE Replay(_, _)
\* the table after the set calls of calls, in order, from table t
Replay(t, calls) ==
    IF calls = <<>> THEN t
    ELSE Replay(setTable(t, hash_builder, SIZE, Head(calls).key, Head(calls).value),
                Tail(calls))

\* C9: every permutation of the set calls made on a fresh table leaves the
\* same table.
C9_OrderIndependent ==
    Live => \A p \in Permutations(1..Len(log)) :
                Replay(Fill(init, SIZE), Permuted(p)) = table

\* three calls with increasing values, two into one bucket and one into
\* another
C9_Witness ==
    /\ Live /\ Len(log) >= 3
    /\ bucket(log[1].key) = bucket(log[3].key)
    /\ bucket(log[1].key) # bucket(log[2].key)
    /\ log[1].value < log[3].value
    /\ log[3].value < init
    /\ table[bucket(log[2].key) + 1] < init

\* C10: map[k] reads what get(k) returns; map[k] = v stores v in k's slot
\* whatever it held, leaves the other slots alone, and every key of that
\* bucket then reads v.
C10_IndexBypassesMin ==
    [][(Live /\ status' = "live") =>
        /\ op'[1] = "index" => ret' = lookup(op'[2])
        /\ op'[1] = "index_mut" =>
            /\ \A i \in 1..SIZE :
                table'[i] = IF i = bucket(op'[2]) + 1 THEN op'[3] ELSE table[i]
            /\ \A k \in Keys :
                bucket(k) = bucket(op'[2]) =>
                    get(table', hash_builder', SIZE', k) = op'[3]]_vars

\* a write through the index raised a slot above init, next to an
\* untouched slot
C10_Witness ==
    /\ Live /\ SIZE >= 2
    /\ op[1] = "index_mut"
    /\ op[3] > init
    /\ lookup(op[2]) = op[3]
    /\ \E i \in 1..SIZE : table[i] # op[3]

====
